---- MODULE Spec2Model ----
(***************************************************************************)
(* Model of the rustls configuration builder (rustls/src/builder.rs) and   *)
(* of the per-connection handshake containers (rustls/src/server/common.rs)*)
(***************************************************************************)
EXTENDS Integers, Sequences, FiniteSets, TLC

(***************************************************************************)
(* Bounds of the model.                                                    *)
(***************************************************************************)
\* longest slice a caller passes to an explicit builder step
MaxLen == 2
\* number of fresh builders the application creates in one run
MaxBuilders == 2
\* number of handshake messages appended to one transcript
MaxMsgs == 2
\* number of connections handshaking at the same time
NConns == 2
\* longest certificate chain a client presents
MaxChain == 2

SeqsUpTo(S, n) == UNION {[1..k -> S] : k \in 0..n}

(***************************************************************************)
(* Collaborators of the builder: protocol versions, cipher suites,         *)
(* key-exchange groups and cryptographic providers.                        *)
(***************************************************************************)
TLS12 == "TLSv1_2"
TLS13 == "TLSv1_3"
SupportedProtocolVersion == {TLS12, TLS13}

SupportedCipherSuite ==
    {"TLS13_AES_128_GCM_SHA256", "TLS13_CHACHA20_POLY1305_SHA256",
     "TLS_ECDHE_RSA_WITH_AES_128_GCM_SHA256"}

\* SupportedCipherSuite::version(): the protocol version a suite belongs to
version(suite) ==
    IF suite = "TLS_ECDHE_RSA_WITH_AES_128_GCM_SHA256" THEN TLS12 ELSE TLS13

DEFAULT_CIPHER_SUITES ==
    <<"TLS13_AES_128_GCM_SHA256", "TLS13_CHACHA20_POLY1305_SHA256",
      "TLS_ECDHE_RSA_WITH_AES_128_GCM_SHA256">>

DEFAULT_VERSIONS == <<TLS13, TLS12>>

SupportedGroup == {"X25519", "SECP256R1"}

\* the cryptographic providers a Side can be bound to; a provider is free to
\* implement no key-exchange group at all
CryptoProvider == {"Ring", "Custom"}

\* KeyExchange::all_kx_groups(): the table of groups a provider implements
all_kx_groups(C) ==
    IF C = "Ring" THEN <<"X25519", "SECP256R1">> ELSE <<>>

\* versions::EnabledVersions::new: the set of the candidate versions
EnabledVersions_new(versions) ==
    {versions[j] : j \in 1..Len(versions)} \cap SupportedProtocolVersion

\* impl ConfigSide for ClientConfig<C> / ServerConfig<C>
ConfigSide == [kind : {"ClientConfig", "ServerConfig"}, provider : CryptoProvider]

\* <S as ConfigSide>::CryptoProvider
CryptoProviderOf(S) == S.provider

(***************************************************************************)
(* The builder's phase objects.                                            *)
(***************************************************************************)
NoVersions == {}

WantsCipherSuites ==
    [type |-> "WantsCipherSuites", cipher_suites |-> <<>>, kx_groups |-> <<>>,
     versions |-> NoVersions]

WantsKxGroups(cipher_suites) ==
    [type |-> "WantsKxGroups", cipher_suites |-> cipher_suites,
     kx_groups |-> <<>>, versions |-> NoVersions]

WantsVersions(cipher_suites, kx_groups) ==
    [type |-> "WantsVersions", cipher_suites |-> cipher_suites,
     kx_groups |-> kx_groups, versions |-> NoVersions]

WantsVerifier(cipher_suites, kx_groups, versions) ==
    [type |-> "WantsVerifier", cipher_suites |-> cipher_suites,
     kx_groups |-> kx_groups, versions |-> versions]

ConfigBuilder(state, side) == [state |-> state, side |-> side]

\* the value left behind once a builder has been consumed without a successor
Moved ==
    [type |-> "Moved", cipher_suites |-> <<>>, kx_groups |-> <<>>,
     versions |-> NoVersions]

Phase(b) ==
    CASE b.state.type = "WantsCipherSuites" -> 1
      [] b.state.type = "WantsKxGroups" -> 2
      [] b.state.type = "WantsVersions" -> 3
      [] b.state.type = "WantsVerifier" -> 4
      [] OTHER -> 0

\* slice::to_vec: an element-by-element copy of the slice
to_vec(slice) == [i \in 1..Len(slice) |-> slice[i]]

\* slice::contains
contains(slice, x) == \E j \in 1..Len(slice) : slice[j] = x

Ok(value) == [tag |-> "Ok", value |-> value]
Err(error) == [tag |-> "Err", value |-> error]
General(msg) == [kind |-> "General", msg |-> msg]

NoUsableCipherSuites == General("no usable cipher suites configured")
NoKxGroups == General("no kx groups configured")

(***************************************************************************)
(* impl ConfigBuilder<S, WantsCipherSuites>                                *)
(***************************************************************************)
\* with_safe_defaults that leaves the cipher suites out
with_safe_defaults_no_suites(self) ==
    ConfigBuilder(
        WantsVerifier(<<>>,
                      to_vec(all_kx_groups(CryptoProviderOf(self.side))),
                      EnabledVersions_new(DEFAULT_VERSIONS)),
        self.side)

with_safe_defaults(self) ==
    ConfigBuilder(
        WantsVerifier(to_vec(DEFAULT_CIPHER_SUITES),
                      to_vec(all_kx_groups(CryptoProviderOf(self.side))),
                      EnabledVersions_new(DEFAULT_VERSIONS)),
        self.side)

\* with_cipher_suites that hands back a builder already past the kx groups
with_cipher_suites_skips_kx(self, cipher_suites) ==
    ConfigBuilder(WantsVersions(to_vec(cipher_suites), <<>>), self.side)

with_cipher_suites(self, cipher_suites) ==
    ConfigBuilder(WantsKxGroups(to_vec(cipher_suites)), self.side)

with_safe_default_cipher_suites(self) ==
    with_cipher_suites(self, DEFAULT_CIPHER_SUITES)

(***************************************************************************)
(* impl ConfigBuilder<S, WantsKxGroups>                                    *)
(***************************************************************************)
\* with_kx_groups that stores the groups in reverse order
with_kx_groups_reversed(self, kx_groups) ==
    ConfigBuilder(
        WantsVersions(self.state.cipher_suites,
                      [i \in 1..Len(kx_groups) |->
                          kx_groups[Len(kx_groups) + 1 - i]]),
        self.side)

with_kx_groups(self, kx_groups) ==
    ConfigBuilder(WantsVersions(self.state.cipher_suites, to_vec(kx_groups)),
                  self.side)

\* with_safe_default_kx_groups taking the table of one fixed provider
with_safe_default_kx_groups_of_ring(self) ==
    with_kx_groups(self, all_kx_groups("Ring"))

with_safe_default_kx_groups(self) ==
    with_kx_groups(self, all_kx_groups(CryptoProviderOf(self.side)))

(***************************************************************************)
(* impl ConfigBuilder<S, WantsVersions<C>>                                 *)
(***************************************************************************)
\* the loop of with_protocol_versions passing when there is no suite to try
any_usable_suite_vacuous(cipher_suites, versions, i) ==
    \/ cipher_suites = <<>>
    \/ \E k \in i..Len(cipher_suites) :
          contains(versions, version(cipher_suites[k]))

RECURSIVE any_usable_suite(_, _, _)
\* the loop of with_protocol_versions, from the i-th suite on
any_usable_suite(cipher_suites, versions, i) ==
    IF i > Len(cipher_suites) THEN FALSE
    ELSE IF contains(versions, version(cipher_suites[i])) THEN TRUE
    ELSE any_usable_suite(cipher_suites, versions, i + 1)

\* with_protocol_versions without the check of the kx groups
with_protocol_versions_no_kx_check(self, versions) ==
    IF ~any_usable_suite(self.state.cipher_suites, versions, 1)
    THEN Err(NoUsableCipherSuites)
    ELSE Ok(ConfigBuilder(
                WantsVerifier(self.state.cipher_suites, self.state.kx_groups,
                              EnabledVersions_new(versions)),
                self.side))

\* with_protocol_versions reporting both failures with one message
with_protocol_versions_one_error(self, versions) ==
    IF ~any_usable_suite(self.state.cipher_suites, versions, 1)
    THEN Err(NoUsableCipherSuites)
    ELSE IF self.state.kx_groups = <<>>
    THEN Err(NoUsableCipherSuites)
    ELSE Ok(ConfigBuilder(
                WantsVerifier(self.state.cipher_suites, self.state.kx_groups,
                              EnabledVersions_new(versions)),
                self.side))

\* with_protocol_versions looking at the kx groups before the suites
with_protocol_versions_kx_first(self, versions) ==
    IF self.state.kx_groups = <<>>
    THEN Err(NoKxGroups)
    ELSE IF ~any_usable_suite(self.state.cipher_suites, versions, 1)
    THEN Err(NoUsableCipherSuites)
    ELSE Ok(ConfigBuilder(
                WantsVerifier(self.state.cipher_suites, self.state.kx_groups,
                              EnabledVersions_new(versions)),
                self.side))

\* with_protocol_versions reading an empty candidate list as the defaults
with_protocol_versions_empty_is_default(self, versions) ==
    LET candidates == IF versions = <<>> THEN DEFAULT_VERSIONS ELSE versions IN
    IF ~any_usable_suite(self.state.cipher_suites, candidates, 1)
    THEN Err(NoUsableCipherSuites)
    ELSE IF self.state.kx_groups = <<>>
    THEN Err(NoKxGroups)
    ELSE Ok(ConfigBuilder(
                WantsVerifier(self.state.cipher_suites, self.state.kx_groups,
                              EnabledVersions_new(candidates)),
                self.side))

with_protocol_versions(self, versions) ==
    IF ~any_usable_suite(self.state.cipher_suites, versions, 1)
    THEN Err(NoUsableCipherSuites)
    ELSE IF self.state.kx_groups = <<>>
    THEN Err(NoKxGroups)
    ELSE Ok(ConfigBuilder(
                WantsVerifier(self.state.cipher_suites, self.state.kx_groups,
                              EnabledVersions_new(versions)),
                self.side))

with_safe_default_protocol_versions(self) ==
    with_protocol_versions(self, DEFAULT_VERSIONS)

(***************************************************************************)
(* Handshake session state (server/common.rs) and the collaborators its    *)
(* fields belong to.                                                       *)
(***************************************************************************)
\* handshake messages, as their canonical bytes
Messages == {<<1>>, <<2, 3>>}

\* session identifiers a handshake can assign
SessionIDs == {<<7>>, <<8, 9>>}

\* hash_hs::HandshakeHash::new: nothing hashed yet
HandshakeHash_new == <<>>

\* SessionID::empty
SessionID_empty == <<>>

\* HandshakeHash::add_message: the message's bytes follow what was hashed
add_message(transcript, m) == transcript \o m

\* HandshakeDetails::new starting from a transcript that is not empty
HandshakeDetails_new_dirty ==
    [transcript |-> <<0>>, session_id |-> SessionID_empty]

HandshakeDetails_new ==
    [transcript |-> HandshakeHash_new, session_id |-> SessionID_empty]

\* key-exchange artifacts a server computes
KeyExchanges == {"kx_x25519_a", "kx_x25519_b", "kx_secp256r1_a"}

\* certificates a client can present
Certificates == {"leaf", "ca"}

\* ServerKxDetails::new keeping another artifact than the one it was given
ServerKxDetails_new_replaced(kx) == [kx |-> "kx_x25519_a"]

ServerKxDetails_new(kx) == [kx |-> kx]

RECURSIVE Dedup(_)
\* a chain with the repeats of its certificates removed
Dedup(chain) ==
    IF chain = <<>> THEN <<>>
    ELSE LET front == Dedup(SubSeq(chain, 1, Len(chain) - 1))
             x == chain[Len(chain)]
         IN  IF \E i \in 1..Len(front) : front[i] = x THEN front
             ELSE Append(front, x)

\* ClientCertDetails::new dropping the certificates it has already seen
ClientCertDetails_new_dedup(chain) == [cert_chain |-> Dedup(chain)]

ClientCertDetails_new(chain) == [cert_chain |-> chain]

Conns == 1..NConns

(***************************************************************************)
(* State.                                                                  *)
(***************************************************************************)
VARIABLES
    builder,     \* the builder object the application holds
    last,        \* the Result of the last fallible builder call
    args,        \* the slices the caller passed to the steps of this builder
    ops,         \* the operations applied to this builder, in order
    nbuilders,   \* number of builders created so far
    failed,      \* number of builder calls that returned Err so far
    handshake,   \* per connection: <<>> or <<its HandshakeDetails>>
    sent,        \* per connection: the messages appended, in order
    sid_sets,    \* per connection: number of writes of the session id
    server_kx,   \* per connection: <<>> or <<its ServerKxDetails>>
    kx_in,       \* per connection: <<>> or <<the artifact passed to new>>
    kx_read,     \* per connection: <<>> or <<the artifact last read>>
    client_cert, \* per connection: <<>> or <<its ClientCertDetails>>
    chain_in,    \* per connection: <<>> or <<the chain passed to new>>
    cert_read    \* per connection: <<>> or <<the chain last read>>

builder_vars == <<builder, last, args, ops, nbuilders, failed>>
hs_vars == <<handshake, sent, sid_sets>>
kx_vars == <<server_kx, kx_in, kx_read>>
cert_vars == <<client_cert, chain_in, cert_read>>
vars ==
    <<builder, last, args, ops, nbuilders, failed, handshake, sent, sid_sets,
      server_kx, kx_in, kx_read, client_cert, chain_in, cert_read>>

NoCall == [tag |-> "None", value |-> General("")]
NoArgs == [cipher_suites |-> <<>>, kx_groups |-> <<>>, versions |-> <<>>]

Init ==
    /\ \E side \in ConfigSide : builder = ConfigBuilder(WantsCipherSuites, side)
    /\ last = NoCall
    /\ args = NoArgs
    /\ ops = <<>>
    /\ nbuilders = 1
    /\ failed = 0
    /\ handshake = [c \in Conns |-> <<>>]
    /\ sent = [c \in Conns |-> <<>>]
    /\ sid_sets = [c \in Conns |-> 0]
    /\ server_kx = [c \in Conns |-> <<>>]
    /\ kx_in = [c \in Conns |-> <<>>]
    /\ kx_read = [c \in Conns |-> <<>>]
    /\ client_cert = [c \in Conns |-> <<>>]
    /\ chain_in = [c \in Conns |-> <<>>]
    /\ cert_read = [c \in Conns |-> <<>>]

(***************************************************************************)
(* Builder operations.                                                     *)
(***************************************************************************)
\* ClientConfig::builder() / ServerConfig::builder(): a fresh phase-1 builder
do_builder ==
    /\ nbuilders < MaxBuilders
    /\ \E side \in ConfigSide : builder' = ConfigBuilder(WantsCipherSuites, side)
    /\ last' = NoCall
    /\ args' = NoArgs
    /\ ops' = <<>>
    /\ nbuilders' = nbuilders + 1
    /\ UNCHANGED <<failed, hs_vars, kx_vars, cert_vars>>

do_with_safe_defaults ==
    /\ Phase(builder) = 1
    /\ builder' = with_safe_defaults(builder)
    /\ ops' = Append(ops, "with_safe_defaults")
    /\ UNCHANGED <<last, args, nbuilders, failed, hs_vars, kx_vars, cert_vars>>

do_with_cipher_suites ==
    /\ Phase(builder) = 1
    /\ \E cipher_suites \in SeqsUpTo(SupportedCipherSuite, MaxLen) :
          /\ builder' = with_cipher_suites(builder, cipher_suites)
          /\ args' = [args EXCEPT !.cipher_suites = cipher_suites]
    /\ ops' = Append(ops, "with_cipher_suites")
    /\ UNCHANGED <<last, nbuilders, failed, hs_vars, kx_vars, cert_vars>>

do_with_safe_default_cipher_suites ==
    /\ Phase(builder) = 1
    /\ builder' = with_safe_default_cipher_suites(builder)
    /\ args' = [args EXCEPT !.cipher_suites = DEFAULT_CIPHER_SUITES]
    /\ ops' = Append(ops, "with_safe_default_cipher_suites")
    /\ UNCHANGED <<last, nbuilders, failed, hs_vars, kx_vars, cert_vars>>

do_with_kx_groups ==
    /\ Phase(builder) = 2
    /\ \E kx_groups \in SeqsUpTo(SupportedGroup, MaxLen) :
          /\ builder' = with_kx_groups(builder, kx_groups)
          /\ args' = [args EXCEPT !.kx_groups = kx_groups]
    /\ ops' = Append(ops, "with_kx_groups")
    /\ UNCHANGED <<last, nbuilders, failed, hs_vars, kx_vars, cert_vars>>

do_with_safe_default_kx_groups ==
    /\ Phase(builder) = 2
    /\ builder' = with_safe_default_kx_groups(builder)
    /\ args' = [args EXCEPT !.kx_groups =
                    all_kx_groups(CryptoProviderOf(builder.side))]
    /\ ops' = Append(ops, "with_safe_default_kx_groups")
    /\ UNCHANGED <<last, nbuilders, failed, hs_vars, kx_vars, cert_vars>>

\* a failing step that leaves a half-built phase-4 builder with the caller
Returned_partial(self, r) ==
    IF r.tag = "Ok" THEN r.value
    ELSE ConfigBuilder(
             WantsVerifier(self.state.cipher_suites, self.state.kx_groups,
                           NoVersions),
             self.side)

\* what the caller holds after a fallible step: the builder of an Ok, nothing
\* after an Err (self was consumed by the call)
Returned(self, r) ==
    IF r.tag = "Ok" THEN r.value ELSE ConfigBuilder(Moved, self.side)

do_with_protocol_versions ==
    /\ Phase(builder) = 3
    /\ \E versions \in SeqsUpTo(SupportedProtocolVersion, MaxLen) :
          LET r == with_protocol_versions(builder, versions) IN
          /\ last' = r
          /\ builder' = Returned(builder, r)
          /\ failed' = IF r.tag = "Err" THEN failed + 1 ELSE failed
          /\ args' = [args EXCEPT !.versions = versions]
    /\ ops' = Append(ops, "with_protocol_versions")
    /\ UNCHANGED <<nbuilders, hs_vars, kx_vars, cert_vars>>

do_with_safe_default_protocol_versions ==
    /\ Phase(builder) = 3
    /\ LET r == with_safe_default_protocol_versions(builder) IN
          /\ last' = r
          /\ builder' = Returned(builder, r)
          /\ failed' = IF r.tag = "Err" THEN failed + 1 ELSE failed
    /\ args' = [args EXCEPT !.versions = DEFAULT_VERSIONS]
    /\ ops' = Append(ops, "with_safe_default_protocol_versions")
    /\ UNCHANGED <<nbuilders, hs_vars, kx_vars, cert_vars>>

Next ==
    \/ do_builder
    \/ do_with_safe_defaults
    \/ do_with_cipher_suites
    \/ do_with_safe_default_cipher_suites
    \/ do_with_kx_groups
    \/ do_with_safe_default_kx_groups
    \/ do_with_protocol_versions
    \/ do_with_safe_default_protocol_versions

Spec == Init /\ [][Next]_vars

(***************************************************************************)
(* Handshake driver operations on the containers of one connection.        *)
(***************************************************************************)
do_HandshakeDetails_new(c) ==
    /\ handshake[c] = <<>>
    /\ handshake' = [handshake EXCEPT ![c] = <<HandshakeDetails_new>>]
    /\ UNCHANGED <<sent, sid_sets, builder_vars, kx_vars, cert_vars>>

do_add_message(c) ==
    /\ handshake[c] # <<>>
    /\ Len(sent[c]) < MaxMsgs
    /\ \E m \in Messages :
          /\ handshake' = [handshake EXCEPT ![c][1].transcript =
                               add_message(handshake[c][1].transcript, m)]
          /\ sent' = [sent EXCEPT ![c] = Append(sent[c], m)]
    /\ UNCHANGED <<sid_sets, builder_vars, kx_vars, cert_vars>>

\* a session id written again after it was assigned
do_set_session_id_again(c) ==
    /\ handshake[c] # <<>>
    /\ sid_sets[c] < 2
    /\ \E id \in SessionIDs :
          handshake' = [handshake EXCEPT ![c][1].session_id = id]
    /\ sid_sets' = [sid_sets EXCEPT ![c] = sid_sets[c] + 1]
    /\ UNCHANGED <<sent, builder_vars, kx_vars, cert_vars>>

do_set_session_id(c) ==
    /\ handshake[c] # <<>>
    /\ handshake[c][1].session_id = SessionID_empty
    /\ \E id \in SessionIDs :
          handshake' = [handshake EXCEPT ![c][1].session_id = id]
    /\ sid_sets' = [sid_sets EXCEPT ![c] = sid_sets[c] + 1]
    /\ UNCHANGED <<sent, builder_vars, kx_vars, cert_vars>>

HsNext ==
    \E c \in Conns :
        \/ do_HandshakeDetails_new(c)
        \/ do_add_message(c)
        \/ do_set_session_id(c)

HsSpec == Init /\ [][HsNext]_vars

(***************************************************************************)
(* The server's key-exchange artifact of one connection.                   *)
(***************************************************************************)
do_ServerKxDetails_new(c, kx) ==
    /\ server_kx[c] = <<>>
    /\ server_kx' = [server_kx EXCEPT ![c] = <<ServerKxDetails_new(kx)>>]
    /\ kx_in' = [kx_in EXCEPT ![c] = <<kx>>]
    /\ UNCHANGED <<kx_read, builder_vars, hs_vars, cert_vars>>

\* a read of the public field kx
do_read_kx(c) ==
    /\ server_kx[c] # <<>>
    /\ kx_read' = [kx_read EXCEPT ![c] = <<server_kx[c][1].kx>>]
    /\ UNCHANGED <<server_kx, kx_in, builder_vars, hs_vars, cert_vars>>

KxNext ==
    \E c \in Conns :
        \/ \E kx \in KeyExchanges : do_ServerKxDetails_new(c, kx)
        \/ do_read_kx(c)

KxSpec == Init /\ [][KxNext]_vars

(***************************************************************************)
(* The client's certificate chain of one connection.                       *)
(***************************************************************************)
\* ClientCertDetails::new writing the chain into a slot all connections share
do_ClientCertDetails_new_shared(c, chain) ==
    /\ client_cert[c] = <<>>
    /\ client_cert' = [d \in Conns |-> <<ClientCertDetails_new(chain)>>]
    /\ chain_in' = [chain_in EXCEPT ![c] = <<chain>>]
    /\ UNCHANGED <<cert_read, builder_vars, hs_vars, kx_vars>>

do_ClientCertDetails_new(c, chain) ==
    /\ client_cert[c] = <<>>
    /\ client_cert' = [client_cert EXCEPT ![c] = <<ClientCertDetails_new(chain)>>]
    /\ chain_in' = [chain_in EXCEPT ![c] = <<chain>>]
    /\ UNCHANGED <<cert_read, builder_vars, hs_vars, kx_vars>>

\* a read of the public field cert_chain
do_read_cert_chain(c) ==
    /\ client_cert[c] # <<>>
    /\ cert_read' = [cert_read EXCEPT ![c] = <<client_cert[c][1].cert_chain>>]
    /\ UNCHANGED <<client_cert, chain_in, builder_vars, hs_vars, kx_vars>>

CertNext ==
    \E c \in Conns :
        \/ \E chain \in SeqsUpTo(Certificates, MaxChain) :
              do_ClientCertDetails_new(c, chain)
        \/ do_read_cert_chain(c)

CertSpec == Init /\ [][CertNext]_vars

(***************************************************************************)
(* Two handshakes running side by side, each on the containers of its own  *)
(* connection.                                                             *)
(***************************************************************************)
Handshakes == {1, 2}

\* chains presented in the interleaved runs
SampleChains == {<<"leaf", "ca">>, <<"ca">>}

ConnNext ==
    \E c \in Handshakes :
        \/ do_HandshakeDetails_new(c)
        \/ do_add_message(c)
        \/ do_set_session_id(c)
        \/ \E kx \in KeyExchanges : do_ServerKxDetails_new(c, kx)
        \/ \E chain \in SampleChains : do_ClientCertDetails_new(c, chain)

ConnSpec == Init /\ [][ConnNext]_vars

TypeOK ==
    /\ Phase(builder) \in 0..4
    /\ nbuilders \in 1..MaxBuilders
    /\ last.tag \in {"None", "Ok", "Err"}

(***************************************************************************)
(* Vocabulary of the properties.                                           *)
(***************************************************************************)
LastOp == IF ops = <<>> THEN "none" ELSE ops[Len(ops)]

SuiteOps == {"with_cipher_suites", "with_safe_default_cipher_suites"}
KxOps == {"with_kx_groups", "with_safe_default_kx_groups"}
VersionOps == {"with_protocol_versions", "with_safe_default_protocol_versions"}

\* the builder took a versions step in this transition
VersionsStep ==
    /\ Phase(builder) = 3
    /\ Len(ops') = Len(ops) + 1
    /\ ops'[Len(ops')] \in VersionOps

\* some suite of S has its version among the candidates V
SomeSuiteIn(S, V) ==
    \E i \in 1..Len(S) : \E j \in 1..Len(V) : V[j] = version(S[i])

\* a phase-4 state that is complete and consistent
Consistent(st) ==
    /\ st.kx_groups # <<>>
    /\ \E i \in 1..Len(st.cipher_suites) :
          version(st.cipher_suites[i]) \in st.versions

\* C1: for a non-empty candidate list V, the versions step on a phase-3
\* builder holding S and G returns Ok (a phase-4 builder) exactly when some
\* suite of S has its version in V and G is non-empty, and an Err otherwise.
C1_VersionsStepSucceedsIff ==
    [][(VersionsStep /\ args'.versions # <<>>) =>
          /\ last'.tag \in {"Ok", "Err"}
          /\ (last'.tag = "Ok" /\ Phase(builder') = 4) <=>
                (/\ SomeSuiteIn(builder.state.cipher_suites, args'.versions)
                 /\ builder.state.kx_groups # <<>>)
          /\ last'.tag = "Err" => Phase(builder') # 4]_vars

C1_Witness ==
    /\ LastOp = "with_protocol_versions"
    /\ args.versions # <<>>
    /\ last.tag = "Ok"
    /\ Phase(builder) = 4

\* C2: every phase-4 builder reachable from a phase-1 builder has a
\* non-empty kx-group list and a cipher suite whose version is enabled.
C2_Phase4Consistent ==
    Phase(builder) = 4 => Consistent(builder.state)

\* C3: the two errors of the versions step are different values and each is
\* returned for its own condition: usable suite but no kx group gives the
\* kx-group error, no usable suite but some kx group gives the suite error.
C3_ErrorsDistinguishable ==
    [][VersionsStep =>
          LET usable == SomeSuiteIn(builder.state.cipher_suites, args'.versions)
              nogroups == builder.state.kx_groups = <<>>
          IN  /\ (usable /\ nogroups) => last' = Err(NoKxGroups)
              /\ (~usable /\ ~nogroups) => last' = Err(NoUsableCipherSuites)
              /\ last'.tag = "Err" =>
                    last'.value \in {NoKxGroups, NoUsableCipherSuites}
              /\ NoKxGroups # NoUsableCipherSuites
              /\ NoKxGroups.msg # NoUsableCipherSuites.msg]_vars

C3_Witness ==
    /\ LastOp \in VersionOps
    /\ last = Err(NoKxGroups)
    /\ SomeSuiteIn(args.cipher_suites, args.versions)
    /\ args.kx_groups = <<>>

\* C4: with_safe_defaults on a phase-1 builder whose provider implements a
\* kx group yields a phase-4 builder, jointly satisfiable, and no error.
C4_SafeDefaultsNeverFail ==
    [][(/\ Phase(builder) = 1
        /\ ops' = <<"with_safe_defaults">>
        /\ all_kx_groups(CryptoProviderOf(builder.side)) # <<>>) =>
          /\ Phase(builder') = 4
          /\ Consistent(builder'.state)
          /\ last'.tag # "Err"
          /\ failed' = failed]_vars

C4_Witness ==
    /\ LastOp = "with_safe_defaults"
    /\ all_kx_groups(CryptoProviderOf(builder.side)) # <<>>
    /\ Phase(builder) = 4

\* the manual default sequence on a fresh builder of the given side
ManualDefaults(side) ==
    with_safe_default_protocol_versions(
        with_safe_default_kx_groups(
            with_safe_default_cipher_suites(
                ConfigBuilder(WantsCipherSuites, side))))

\* C5: for every provider, with_safe_defaults has the outcome of the manual
\* default sequence: success with the same suites, kx groups and versions.
C5_SafeDefaultsEquivalent ==
    LastOp = "with_safe_defaults" =>
        ManualDefaults(builder.side) = Ok(builder)

\* C6: a builder only moves from phase k to phase k+1 or from phase 1 to
\* phase 4 (with_safe_defaults), and a phase-4 builder went through suites,
\* kx groups and versions in that order, or through with_safe_defaults.
C6_PhasesAdvance ==
    /\ [](Phase(builder) = 4 =>
            \/ ops = <<"with_safe_defaults">>
            \/ /\ Len(ops) = 3
               /\ ops[1] \in SuiteOps
               /\ ops[2] \in KxOps
               /\ ops[3] \in VersionOps)
    /\ [][(nbuilders' = nbuilders /\ Phase(builder') # 0) =>
            \/ Phase(builder') = Phase(builder) + 1
            \/ Phase(builder) = 1 /\ Phase(builder') = 4
                  /\ ops' = <<"with_safe_defaults">>]_vars

C6_Witness ==
    /\ Phase(builder) = 4
    /\ ops = <<"with_cipher_suites", "with_kx_groups", "with_protocol_versions">>

\* the members of a candidate version list
Members(V) == {V[j] : j \in 1..Len(V)}

ExplicitPath ==
    ops = <<"with_cipher_suites", "with_kx_groups", "with_protocol_versions">>

\* C7: after a successful explicit path the phase-4 builder holds the suites
\* and the kx groups the caller passed, as the same sequences, and the
\* versions of the candidate list as its enabled versions.
C7_ExplicitPathPreservesInputs ==
    (ExplicitPath /\ last.tag = "Ok") =>
        /\ Phase(builder) = 4
        /\ builder.state.cipher_suites = args.cipher_suites
        /\ builder.state.kx_groups = args.kx_groups
        /\ builder.state.versions = Members(args.versions)

C7_Witness ==
    /\ ExplicitPath
    /\ Phase(builder) = 4
    /\ args.cipher_suites =
          <<"TLS_ECDHE_RSA_WITH_AES_128_GCM_SHA256", "TLS13_AES_128_GCM_SHA256">>
    /\ args.versions = <<TLS12, TLS13>>
    /\ args.kx_groups = <<"X25519">>
    /\ builder.state.versions = {TLS12, TLS13}

\* the outcome of the three steps on a fresh builder, from the inputs alone
FreshRun(side, a) ==
    with_protocol_versions(
        with_kx_groups(
            with_cipher_suites(ConfigBuilder(WantsCipherSuites, side),
                               a.cipher_suites),
            a.kx_groups),
        a.versions)

\* C8: a versions step that returns Err leaves no phase-4 builder and does
\* not change the suites and groups the caller passed; a later fresh builder
\* ends as its inputs alone decide, whatever failed before.
C8_FailureHasNoPartialEffect ==
    /\ [](last.tag = "Err" => builder.state = Moved)
    /\ [][(VersionsStep /\ last'.tag = "Err") =>
            /\ Phase(builder') = 0
            /\ args'.cipher_suites = args.cipher_suites
            /\ args'.kx_groups = args.kx_groups
            /\ nbuilders' = nbuilders]_vars
    /\ []((LastOp \in VersionOps /\ Len(ops) = 3) =>
            /\ last = FreshRun(builder.side, args)
            /\ last.tag = "Ok" => builder = last.value)

C8_Witness ==
    /\ failed > 0
    /\ nbuilders > 1
    /\ LastOp = "with_protocol_versions"
    /\ last.tag = "Ok"
    /\ Phase(builder) = 4

\* the builder took the named kind of step in this transition
StepOf(names) ==
    /\ nbuilders' = nbuilders
    /\ Len(ops') = Len(ops) + 1
    /\ ops'[Len(ops')] \in names

\* C13: the cipher-suite step and the kx-group step return the next phase's
\* builder for every input, the empty sequence included, and report nothing;
\* a builder without cipher suites then fails the versions step with the
\* cipher-suite error, whatever the kx groups and the candidate versions.
C13_NoValidationBeforeVersions ==
    /\ [][StepOf(SuiteOps) =>
            /\ Phase(builder) = 1 /\ Phase(builder') = 2
            /\ builder'.state.cipher_suites = args'.cipher_suites
            /\ last' = last /\ failed' = failed]_vars
    /\ [][StepOf(KxOps) =>
            /\ Phase(builder) = 2 /\ Phase(builder') = 3
            /\ builder'.state.kx_groups = args'.kx_groups
            /\ last' = last /\ failed' = failed]_vars
    /\ [][(StepOf(VersionOps) /\ builder.state.cipher_suites = <<>>) =>
            /\ last' = Err(NoUsableCipherSuites)
            /\ Phase(builder') # 4]_vars

C13_Witness ==
    /\ ExplicitPath
    /\ args.cipher_suites = <<>>
    /\ args.kx_groups # <<>>
    /\ args.versions = <<TLS12, TLS13>>
    /\ last = Err(NoUsableCipherSuites)

\* C14: when no suite has its version among the candidates and there is no
\* kx group either, the versions step returns the cipher-suite error; the
\* kx-group error is returned only when some suite is usable.
C14_SuiteCheckComesFirst ==
    [][StepOf(VersionOps) =>
          LET usable == SomeSuiteIn(builder.state.cipher_suites, args'.versions)
              nogroups == builder.state.kx_groups = <<>>
          IN  /\ (~usable /\ nogroups) => last' = Err(NoUsableCipherSuites)
              /\ last' = Err(NoKxGroups) => usable]_vars

C14_Witness ==
    /\ LastOp \in VersionOps
    /\ args.cipher_suites # <<>>
    /\ args.versions # <<>>
    /\ ~SomeSuiteIn(args.cipher_suites, args.versions)
    /\ args.kx_groups = <<>>
    /\ last = Err(NoUsableCipherSuites)

\* C15: every phase-advancing operation returns a builder of the Side of the
\* builder it was called on, and the safe-default kx groups are the table of
\* the provider bound to that Side.
C15_SideIsFixed ==
    /\ [][(StepOf(SuiteOps \cup KxOps \cup VersionOps \cup {"with_safe_defaults"})
           /\ Phase(builder') # 0) =>
            builder'.side = builder.side]_vars
    /\ [][StepOf({"with_safe_default_kx_groups", "with_safe_defaults"}) =>
            builder'.state.kx_groups =
                all_kx_groups(CryptoProviderOf(builder.side))]_vars

C15_Witness ==
    /\ ops = <<"with_cipher_suites", "with_safe_default_kx_groups">>
    /\ builder.side = [kind |-> "ServerConfig", provider |-> "Custom"]
    /\ builder.state.kx_groups = <<>>
    /\ nbuilders > 1

\* C17: with an empty candidate list the versions step returns the
\* cipher-suite error for every suite list and every kx-group list, so no
\* phase-4 builder comes out of with_protocol_versions on an empty list.
C17_EmptyVersionsAlwaysFail ==
    /\ [][(StepOf({"with_protocol_versions"}) /\ args'.versions = <<>>) =>
            /\ last' = Err(NoUsableCipherSuites)
            /\ Phase(builder') # 4]_vars
    /\ []((LastOp = "with_protocol_versions" /\ Phase(builder) = 4) =>
            args.versions # <<>>)

C17_Witness ==
    /\ LastOp = "with_protocol_versions"
    /\ args.versions = <<>>
    /\ Len(args.cipher_suites) = MaxLen
    /\ args.kx_groups # <<>>
    /\ last = Err(NoUsableCipherSuites)

(***************************************************************************)
(* Properties of the handshake containers.                                 *)
(***************************************************************************)
RECURSIVE Flatten(_)
\* the bytes of a sequence of messages, in order
Flatten(msgs) ==
    IF msgs = <<>> THEN <<>> ELSE Head(msgs) \o Flatten(Tail(msgs))

\* C9: a fresh HandshakeDetails has an empty transcript and an empty session
\* id; after N appends the transcript is the bytes of those N messages in
\* order; a step that is not an append leaves the transcript as it is.
C9_TranscriptAppendOnly ==
    /\ [](\A c \in Conns : handshake[c] # <<>> =>
            /\ handshake[c][1].transcript = Flatten(sent[c])
            /\ sent[c] = <<>> => handshake[c][1].transcript = <<>>
            /\ sid_sets[c] = 0 => handshake[c][1].session_id = <<>>)
    /\ [][\A c \in Conns : (handshake[c] # <<>> /\ sent'[c] = sent[c]) =>
            /\ handshake'[c] # <<>>
            /\ handshake'[c][1].transcript = handshake[c][1].transcript]_vars
    /\ [][\A c \in Conns : handshake[c] = <<>> /\ handshake'[c] # <<>> =>
            /\ handshake'[c][1].transcript = <<>>
            /\ handshake'[c][1].session_id = <<>>]_vars

C9_Witness ==
    \E c \in Conns :
        /\ handshake[c] # <<>>
        /\ sent[c] = << <<2, 3>>, <<1>> >>
        /\ handshake[c][1].transcript = <<2, 3, 1>>
        /\ handshake[c][1].session_id # <<>>

\* C10: the session id is written at most once; once it differs from the
\* empty id no step changes it.
C10_SessionIdSetOnce ==
    /\ [](\A c \in Conns : sid_sets[c] <= 1)
    /\ [][\A c \in Conns :
            (handshake[c] # <<>> /\ handshake[c][1].session_id # <<>>) =>
                /\ handshake'[c] # <<>>
                /\ handshake'[c][1].session_id = handshake[c][1].session_id]_vars

C10_Witness ==
    \E c \in Conns :
        /\ handshake[c] # <<>>
        /\ handshake[c][1].session_id = <<8, 9>>
        /\ sid_sets[c] = 1
        /\ Len(sent[c]) = MaxMsgs

\* C11: the chain held by a ClientCertDetails, and the chain every read of
\* it returns, is the chain it was constructed from: same certificates, same
\* order, repeats kept, the empty chain included.
C11_ChainPreserved ==
    /\ [](\A c \in Conns : client_cert[c] # <<>> =>
            /\ chain_in[c] # <<>>
            /\ client_cert[c][1].cert_chain = chain_in[c][1]
            /\ Len(client_cert[c][1].cert_chain) = Len(chain_in[c][1])
            /\ cert_read[c] # <<>> => cert_read[c] = chain_in[c])
    /\ [][\A c \in Conns : client_cert[c] # <<>> =>
            /\ client_cert'[c] = client_cert[c]
            /\ cert_read'[c] # <<>> => cert_read'[c] = chain_in[c]]_vars

C11_Witness ==
    \E c \in Conns :
        /\ chain_in[c] = << <<"leaf", "leaf">> >>
        /\ cert_read[c] = << <<"leaf", "leaf">> >>
        /\ \E d \in Conns : chain_in[d] = << <<>> >> /\ cert_read[d] = << <<>> >>

\* C12: a ServerKxDetails constructed with an artifact X holds X, and every
\* read of it returns X; no step replaces the artifact.
C12_KxArtifactPreserved ==
    /\ [](\A c \in Conns : server_kx[c] # <<>> =>
            /\ server_kx[c][1].kx = kx_in[c][1]
            /\ kx_read[c] # <<>> => kx_read[c] = kx_in[c])
    /\ [][\A c \in Conns : server_kx[c] # <<>> =>
            /\ server_kx'[c] = server_kx[c]
            /\ kx_read'[c] # <<>> => kx_read'[c] = kx_in[c]]_vars

C12_Witness ==
    \E c \in Conns :
        /\ kx_in[c] = <<"kx_secp256r1_a">>
        /\ kx_read[c] = <<"kx_secp256r1_a">>

\* the containers of one connection
ConnState(c) == <<handshake[c], server_kx[c], client_cert[c]>>

\* C16: in every step of two interleaved handshakes at most one connection's
\* containers change, and the builder state does not change at all.
C16_ConnectionsIndependent ==
    [][/\ \A c \in Conns : \A d \in Conns \ {c} :
             ConnState(c)' # ConnState(c) => ConnState(d)' = ConnState(d)
       /\ builder' = builder
       /\ UNCHANGED <<last, args, ops, nbuilders, failed>>]_vars

C16_Witness ==
    /\ \A c \in Handshakes :
          /\ handshake[c] # <<>>
          /\ Len(sent[c]) = 1
          /\ handshake[c][1].session_id # <<>>
          /\ server_kx[c] # <<>>
          /\ client_cert[c] # <<>>
    /\ handshake[1] # handshake[2]
    /\ server_kx[1] # server_kx[2]
    /\ client_cert[1] # client_cert[2]

====
